---- MODULE Spec2Model ----
(***************************************************************************)
(* Model of src/server/socket.rs: the WaylandSocket lock / bind / drop     *)
(* lifecycle over a shared runtime directory.                              *)
(*                                                                         *)
(* A "caller" is one thread of control (a process, or a thread of one)     *)
(* that constructs, owns and drops at most one WaylandSocket at a time.    *)
(* Every system call of the code is one step, so that the calls of         *)
(* different callers interleave as the operating system lets them.         *)
(*                                                                         *)
(* The directory is a map from paths to files.  A regular file carries its *)
(* inode number, because flock(2) locks the open file (the inode), not the *)
(* path: an inode stays alive and lockable while a descriptor refers to    *)
(* it, even after its path was unlinked.  A socket file carries the caller *)
(* that bound it (0 once that caller terminated without cleanup).          *)
(*                                                                         *)
(* System calls fail as follows: openat and bind may fail for reasons of   *)
(* the environment at any time (LockOpen, Bind), bind fails with           *)
(* EADDRINUSE when the path exists, flock fails exactly when another open  *)
(* descriptor holds the lock, and unlink fails only when the path does not *)
(* exist (its result is discarded by the code).                            *)
(*                                                                         *)
(* `alone` is a history variable: it records, for a caller in the middle   *)
(* of a call or a drop, that no other caller has taken a step since that   *)
(* operation began.  Properties about what one operation does are stated   *)
(* for operations that ran undisturbed, from whatever state the            *)
(* interleavings before it have produced.                                  *)
(*                                                                         *)
(* Specifications:                                                         *)
(*   Spec       the *_in_dir constructors, drop and process end            *)
(*   SpecHeld   the constructors alone, no lock ever released, with        *)
(*              fairness on the steps of a running call                    *)
(*   SpecEnv    with_name and with_candidates under any XDG_RUNTIME_DIR    *)
(*   SpecAuto   auto() over its default candidates, the directory reduced  *)
(*              to the set of names whose lock is held elsewhere           *)
(*   SpecAccept with_name_in_dir, accept and drop                          *)
(***************************************************************************)
EXTENDS Integers, Sequences, FiniteSets, TLC

\* ---- bounds ------------------------------------------------------------
NumCallers == 2
NumNames == 2
MaxCands == 2

Callers == 1..NumCallers
Inodes == 1..(NumCallers + NumNames)

\* ---- names and paths ----------------------------------------------------
\* format!("wayland-{i}")
CandidateName(i) == "wayland-" \o ToString(i)

Names == {CandidateName(i) : i \in 1..NumNames}

\* no attempt is running and no socket is owned
NoName == ""

\* the directory every caller shares (the `dir` argument)
Dir == "/run"

\* Mutant: the lock path is the bind path, the ".lock" suffix is lost.
build_paths_same(dir, name) == <<dir \o "/" \o name, dir \o "/" \o name>>

\* fn build_paths(dir, name) -> (bind_path, lock_path)
build_paths(dir, name) == <<dir \o "/" \o name, dir \o "/" \o name \o ".lock">>

Paths == UNION {{build_paths(Dir, n)[1], build_paths(Dir, n)[2]} : n \in Names}

\* the candidate sequences a caller may pass (finite, possibly empty, with
\* repetitions)
CandSeqs == UNION {[1..k -> Names] : k \in 0..MaxCands}

\* ---- files --------------------------------------------------------------
NoFile == [kind |-> "none", id |-> 0]
RegularFile(ino) == [kind |-> "reg", id |-> ino]
SocketFile(owner) == [kind |-> "sock", id |-> owner]

\* ---- auto(): the default candidates --------------------------------------
AutoStart == 1
AutoEnd == 32

\* Mutant: the range includes its end, start..=end.
RangeInclusive(start, end) == [k \in 1..(end - start + 1) |-> start + k - 1]

\* the Rust range start..end as the sequence it iterates: end is excluded
Range(start, end) == [k \in 1..(end - start) |-> start + k - 1]

\* (1..32).map(|i| format!("wayland-{i}").into())
AutoCandidates ==
    [k \in DOMAIN Range(AutoStart, AutoEnd) |-> CandidateName(Range(AutoStart, AutoEnd)[k])]

AutoNames == {AutoCandidates[k] : k \in DOMAIN AutoCandidates}

\* ---- the environment ------------------------------------------------------
\* A value of the XDG_RUNTIME_DIR variable: unset, set to bytes that are not
\* Unicode, or set to a string, kept as its sequence of characters.
EnvUnset == [state |-> "unset", chars |-> <<>>]
EnvNotUnicode == [state |-> "notunicode", chars |-> <<>>]
EnvSet(chars) == [state |-> "set", chars |-> chars]

\* the values tried: unset, not Unicode, empty, a relative path, the directory
EnvValues ==
    {EnvUnset, EnvNotUnicode, EnvSet(<<>>), EnvSet(<<"r", "u", "n">>),
     EnvSet(<<"/", "r", "u", "n">>)}

RECURSIVE PathBufFrom(_)
\* PathBuf::from(String)
PathBufFrom(chars) ==
    IF chars = <<>> THEN "" ELSE Head(chars) \o PathBufFrom(Tail(chars))

\* Path::is_absolute on Unix: the path starts with the root
is_absolute(chars) == Len(chars) > 0 /\ chars[1] = "/"

\* Mutant: an unset or invalid variable falls back to the default directory.
xdg_runtime_dir_fallback(e) == [ok |-> TRUE, dir |-> Dir]

\* fn xdg_runtime_dir() -> Result<PathBuf, SocketError>
xdg_runtime_dir(e) ==
    IF e.state # "set" THEN [ok |-> FALSE, dir |-> ""]
    ELSE IF ~is_absolute(e.chars) THEN [ok |-> FALSE, dir |-> ""]
    ELSE [ok |-> TRUE, dir |-> PathBufFrom(e.chars)]

\* ---- SocketError --------------------------------------------------------
\* Bind carries the io::Error: EADDRINUSE (the path exists) or another one.
BindErrors == {"Bind(EADDRINUSE)", "Bind(other)"}
SocketError ==
    {"NoAvailableSocket", "RuntimeDirInvalid", "LockOpen", "LockAcquire"} \cup BindErrors

VARIABLES
    fs,       \* the directory: path -> file
    pc,       \* caller -> its position in the code
    mode,     \* caller -> "name" (with_name_in_dir) or "cands" (with_candidates_in_dir)
    orig,     \* caller -> the candidate sequence its call was given
    cands,    \* caller -> what is left of the candidates iterator
    cur,      \* caller -> the `name` of the running with_name_in_dir / of the socket
    fd,       \* caller -> inode its lock descriptor refers to (0: no descriptor)
    locked,   \* caller -> whether that descriptor holds the flock
    ret,      \* caller -> what its latest call returned to it
    alone,    \* caller -> no other caller has taken a step since its running
              \* call (or drop) began
    xdg,      \* the XDG_RUNTIME_DIR variable of the environment
    conn,     \* caller -> what its latest accept returned to it
    busy      \* the names whose lock is held by processes other than the callers

vars == <<fs, pc, mode, orig, cands, cur, fd, locked, ret, alone, xdg, conn, busy>>

\* ---- the WaylandSocket of a caller ---------------------------------------
name(p) == cur[p]
bind_path(p) == build_paths(Dir, cur[p])[1]
lock_path(p) == build_paths(Dir, cur[p])[2]

\* constructed, and its drop has not begun
Live(p) == pc[p] = "live"
\* constructed and not yet fully dropped
Exists(p) == pc[p] \in {"live", "drop_lock", "drop_fields"}

\* some other open descriptor holds the flock on inode i
HeldByOther(p, i) == \E q \in Callers \ {p} : fd[q] = i /\ locked[q]

InUse(i) == (\E path \in Paths : fs[path] = RegularFile(i)) \/ (\E q \in Callers : fd[q] = i)

\* the inode number a newly created file gets
FreshInode == CHOOSE i \in Inodes : ~InUse(i) /\ \A j \in Inodes : j < i => InUse(j)

\* between two operations (a call, a drop) of its own
AtRest(q) == pc[q] \in {"idle", "live"}

\* caller p has taken the step: it is no longer true of any other caller in
\* the middle of an operation that it ran undisturbed
Observed(p) ==
    alone' = [q \in Callers |->
                IF pc'[q] \in {"idle", "live"} THEN TRUE
                ELSE IF q = p THEN AtRest(p) \/ alone[p]
                ELSE FALSE]

TypeOK ==
    /\ fs \in [Paths -> {NoFile} \cup {RegularFile(i) : i \in Inodes}
                         \cup {SocketFile(o) : o \in {0} \cup Callers}]
    /\ pc \in [Callers -> {"idle", "open", "flock", "unlink", "bind", "live",
                           "drop_lock", "drop_fields"}]
    /\ mode \in [Callers -> {"name", "cands"}]
    /\ \A p \in Callers :
          \/ /\ orig[p] \in CandSeqs /\ cands[p] \in CandSeqs
             /\ cur[p] \in Names \cup {NoName}
          \/ /\ orig[p] \in {<<>>, AutoCandidates}
             /\ \E k \in 0..Len(AutoCandidates) :
                   cands[p] = SubSeq(AutoCandidates, k + 1, Len(AutoCandidates))
             /\ cur[p] \in AutoNames \cup {NoName}
    /\ fd \in [Callers -> {0} \cup Inodes]
    /\ locked \in [Callers -> BOOLEAN]
    /\ ret \in [Callers -> {"None", "Ok"} \cup SocketError]
    /\ alone \in [Callers -> BOOLEAN]
    /\ xdg \in EnvValues
    /\ conn \in [Callers -> {"None", "Pending", "Stream", "Accept"}]
    /\ busy \subseteq AutoNames

InitCallers ==
    /\ fs = [path \in Paths |-> NoFile]
    /\ pc = [p \in Callers |-> "idle"]
    /\ mode = [p \in Callers |-> "name"]
    /\ orig = [p \in Callers |-> <<>>]
    /\ cands = [p \in Callers |-> <<>>]
    /\ cur = [p \in Callers |-> NoName]
    /\ fd = [p \in Callers |-> 0]
    /\ locked = [p \in Callers |-> FALSE]
    /\ ret = [p \in Callers |-> "None"]
    /\ alone = [p \in Callers |-> TRUE]
    /\ conn = [p \in Callers |-> "None"]

\* the *_in_dir functions are given the directory: the environment plays no
\* part
Init == InitCallers /\ xdg = EnvSet(<<"/", "r", "u", "n">>) /\ busy = {}

\* the functions that read XDG_RUNTIME_DIR, under any value of it
InitEnv == InitCallers /\ xdg \in EnvValues /\ busy = {}

\* ---- with_candidates_in_dir: what happens to the result of an attempt ----
\* Mutant: a Bind error advances to the next candidate as contention does.
AdvancesOnBind(p, r) == mode[p] = "cands" /\ r \in {"LockAcquire"} \cup BindErrors

\* match Self::with_name_in_dir(dir, name): only Err(LockAcquire) continues
Advances(p, r) == mode[p] = "cands" /\ r = "LockAcquire"

\* the call of caller p returns r: what is left of the iterator is dropped
\* unconsumed; only an Ok leaves a WaylandSocket behind (its name, and for
\* the record the call that made it)
Return(p, r) ==
    /\ ret' = [ret EXCEPT ![p] = r]
    /\ pc' = [pc EXCEPT ![p] = IF r = "Ok" THEN "live" ELSE "idle"]
    /\ cur' = [cur EXCEPT ![p] = IF r = "Ok" THEN cur[p] ELSE NoName]
    /\ cands' = [cands EXCEPT ![p] = IF r = "Ok" THEN <<>> ELSE cands[p]]
    /\ mode' = [mode EXCEPT ![p] = IF r = "Ok" THEN mode[p] ELSE "name"]
    /\ orig' = [orig EXCEPT ![p] = IF r = "Ok" THEN orig[p] ELSE <<>>]

\* Mutant: the loop gives up at the first contended candidate.
OutcomeGivesUp(p, r) ==
    IF Advances(p, r) THEN Return(p, "NoAvailableSocket") ELSE Return(p, r)

\* the result r of the attempt of caller p reaches its caller: directly
\* (with_name_in_dir), or through the loop of with_candidates_in_dir
Outcome(p, r) ==
    IF Advances(p, r)
    THEN IF cands[p] = <<>>
         THEN Return(p, "NoAvailableSocket")
         ELSE /\ cur' = [cur EXCEPT ![p] = Head(cands[p])]
              /\ cands' = [cands EXCEPT ![p] = Tail(cands[p])]
              /\ pc' = [pc EXCEPT ![p] = "open"]
              /\ UNCHANGED <<ret, mode, orig>>
    ELSE Return(p, r)

\* ---- the calls ------------------------------------------------------------
\* WaylandSocket::with_name_in_dir(dir, name): build the paths
with_name_in_dir(p, n) ==
    /\ pc[p] = "idle"
    /\ mode' = [mode EXCEPT ![p] = "name"]
    /\ orig' = [orig EXCEPT ![p] = <<n>>]
    /\ cands' = [cands EXCEPT ![p] = <<>>]
    /\ cur' = [cur EXCEPT ![p] = n]
    /\ pc' = [pc EXCEPT ![p] = "open"]
    /\ ret' = [ret EXCEPT ![p] = "None"]
    /\ UNCHANGED <<fs, fd, locked>>
    /\ UNCHANGED <<xdg, conn, busy>>
    /\ Observed(p)

\* Mutant: the loop starts from the last candidate instead of the first.
with_candidates_reversed(p, cs) ==
    /\ pc[p] = "idle"
    /\ IF cs = <<>>
       THEN /\ ret' = [ret EXCEPT ![p] = "NoAvailableSocket"]
            /\ cands' = [cands EXCEPT ![p] = <<>>]
            /\ UNCHANGED <<pc, cur, mode, orig>>
       ELSE /\ ret' = [ret EXCEPT ![p] = "None"]
            /\ mode' = [mode EXCEPT ![p] = "cands"]
            /\ orig' = [orig EXCEPT ![p] = cs]
            /\ cur' = [cur EXCEPT ![p] = cs[Len(cs)]]
            /\ cands' = [cands EXCEPT ![p] = SubSeq(cs, 1, Len(cs) - 1)]
            /\ pc' = [pc EXCEPT ![p] = "open"]
    /\ UNCHANGED <<fs, fd, locked>>
    /\ UNCHANGED <<xdg, conn, busy>>
    /\ Observed(p)

\* WaylandSocket::with_candidates_in_dir(dir, candidates): enter the loop
with_candidates_in_dir(p, cs) ==
    /\ pc[p] = "idle"
    /\ IF cs = <<>>
       THEN /\ ret' = [ret EXCEPT ![p] = "NoAvailableSocket"]
            /\ cands' = [cands EXCEPT ![p] = <<>>]
            /\ UNCHANGED <<pc, cur, mode, orig>>
       ELSE /\ ret' = [ret EXCEPT ![p] = "None"]
            /\ mode' = [mode EXCEPT ![p] = "cands"]
            /\ orig' = [orig EXCEPT ![p] = cs]
            /\ cur' = [cur EXCEPT ![p] = Head(cs)]
            /\ cands' = [cands EXCEPT ![p] = Tail(cs)]
            /\ pc' = [pc EXCEPT ![p] = "open"]
    /\ UNCHANGED <<fs, fd, locked>>
    /\ UNCHANGED <<xdg, conn, busy>>
    /\ Observed(p)

\* lock_file: fs::openat(CWD, path, CREATE | WRONLY, ..) fails
OpenFail(p) ==
    /\ pc[p] = "open"
    /\ Outcome(p, "LockOpen")
    /\ UNCHANGED <<fs, fd, locked>>
    /\ UNCHANGED <<xdg, conn, busy>>
    /\ Observed(p)

\* lock_file: fs::openat(CWD, path, CREATE | WRONLY, ..) opens the file at
\* lock_path, creating it when the path does not exist
OpenOk(p) ==
    /\ pc[p] = "open"
    /\ fs' = IF fs[lock_path(p)] = NoFile
             THEN [fs EXCEPT ![lock_path(p)] = RegularFile(FreshInode)]
             ELSE fs
    /\ fd' = [fd EXCEPT ![p] = fs'[lock_path(p)].id]
    /\ pc' = [pc EXCEPT ![p] = "flock"]
    /\ UNCHANGED <<mode, orig, cands, cur, locked, ret>>
    /\ UNCHANGED <<xdg, conn, busy>>
    /\ Observed(p)

\* Mutant: a blocking flock (LockExclusive) waits while the lock is held
\* through another descriptor.
FlockWaits(p) ==
    /\ pc[p] = "flock"
    /\ HeldByOther(p, fd[p])
    /\ UNCHANGED vars

\* lock_file: fs::flock(&fd, NonBlockingLockExclusive) finds the lock held
\* through another descriptor; the descriptor is closed on the way out
FlockFail(p) ==
    /\ pc[p] = "flock"
    /\ HeldByOther(p, fd[p])
    /\ fd' = [fd EXCEPT ![p] = 0]
    /\ Outcome(p, "LockAcquire")
    /\ UNCHANGED <<fs, locked>>
    /\ UNCHANGED <<xdg, conn, busy>>
    /\ Observed(p)

\* lock_file: fs::flock(&fd, NonBlockingLockExclusive) takes the lock
FlockOk(p) ==
    /\ pc[p] = "flock"
    /\ ~HeldByOther(p, fd[p])
    /\ locked' = [locked EXCEPT ![p] = TRUE]
    /\ pc' = [pc EXCEPT ![p] = "unlink"]
    /\ UNCHANGED <<fs, mode, orig, cands, cur, fd, ret>>
    /\ UNCHANGED <<xdg, conn, busy>>
    /\ Observed(p)

\* Mutant: the leftover socket file is not removed before binding.
UnlinkLeftoverSkipped(p) ==
    /\ pc[p] = "unlink"
    /\ pc' = [pc EXCEPT ![p] = "bind"]
    /\ UNCHANGED <<fs, mode, orig, cands, cur, fd, locked, ret>>
    /\ UNCHANGED <<xdg, conn, busy>>
    /\ Observed(p)

\* with_name_in_dir: let _ = fs::unlink(&bind_path)
UnlinkLeftover(p) ==
    /\ pc[p] = "unlink"
    /\ fs' = [fs EXCEPT ![bind_path(p)] = NoFile]
    /\ pc' = [pc EXCEPT ![p] = "bind"]
    /\ UNCHANGED <<mode, orig, cands, cur, fd, locked, ret>>
    /\ UNCHANGED <<xdg, conn, busy>>
    /\ Observed(p)

\* Mutant: the lock descriptor outlives a failed bind.
LockAfterBindErrorLeaked(p) == UNCHANGED <<fd, locked>>

\* with_name_in_dir: `?` on the Bind error drops _lock, closing the descriptor
LockAfterBindError(p) ==
    /\ fd' = [fd EXCEPT ![p] = 0]
    /\ locked' = [locked EXCEPT ![p] = FALSE]

\* with_name_in_dir: UnixListener::bind(&bind_path) fails
BindFail(p, e) ==
    /\ pc[p] = "bind"
    /\ e = "Bind(EADDRINUSE)" <=> fs[bind_path(p)] # NoFile
    /\ LockAfterBindError(p)
    /\ Outcome(p, e)
    /\ UNCHANGED fs
    /\ UNCHANGED <<xdg, conn, busy>>
    /\ Observed(p)

\* with_name_in_dir: UnixListener::bind(&bind_path) creates the socket file
\* and the WaylandSocket is returned
BindOk(p) ==
    /\ pc[p] = "bind"
    /\ fs[bind_path(p)] = NoFile
    /\ fs' = [fs EXCEPT ![bind_path(p)] = SocketFile(p)]
    /\ Outcome(p, "Ok")
    /\ UNCHANGED <<fd, locked>>
    /\ UNCHANGED <<xdg, conn, busy>>
    /\ Observed(p)

\* Mutant: the lock descriptor is closed before the files are removed.
DropReleasesLockFirst(p) ==
    /\ pc[p] = "live"
    /\ fs' = [fs EXCEPT ![bind_path(p)] = NoFile]
    /\ fd' = [fd EXCEPT ![p] = 0]
    /\ locked' = [locked EXCEPT ![p] = FALSE]
    /\ pc' = [pc EXCEPT ![p] = "drop_lock"]
    /\ conn' = [conn EXCEPT ![p] = "None"]
    /\ UNCHANGED <<mode, orig, cands, cur, ret, xdg, busy>>
    /\ Observed(p)

\* Drop for WaylandSocket: let _ = fs::unlink(&self.bind_path)
DropUnlinkBind(p) ==
    /\ pc[p] = "live"
    /\ fs' = [fs EXCEPT ![bind_path(p)] = NoFile]
    /\ pc' = [pc EXCEPT ![p] = "drop_lock"]
    /\ UNCHANGED <<mode, orig, cands, cur, fd, locked, ret>>
    /\ conn' = [conn EXCEPT ![p] = "None"]
    /\ UNCHANGED <<xdg, busy>>
    /\ Observed(p)

\* Mutant: the drop leaves the lock file in place.
DropKeepsLockFile(p) ==
    /\ pc[p] = "drop_lock"
    /\ pc' = [pc EXCEPT ![p] = "drop_fields"]
    /\ UNCHANGED <<fs, mode, orig, cands, cur, fd, locked, ret>>
    /\ UNCHANGED <<xdg, conn, busy>>
    /\ Observed(p)

\* Drop for WaylandSocket: let _ = fs::unlink(&self.lock_path)
DropUnlinkLock(p) ==
    /\ pc[p] = "drop_lock"
    /\ fs' = [fs EXCEPT ![lock_path(p)] = NoFile]
    /\ pc' = [pc EXCEPT ![p] = "drop_fields"]
    /\ UNCHANGED <<mode, orig, cands, cur, fd, locked, ret>>
    /\ UNCHANGED <<xdg, conn, busy>>
    /\ Observed(p)

\* after Drop::drop the fields are dropped in declaration order: listener,
\* name, bind_path, lock_path, _lock; closing _lock releases the flock
DropFields(p) ==
    /\ pc[p] = "drop_fields"
    /\ fd' = [fd EXCEPT ![p] = 0]
    /\ locked' = [locked EXCEPT ![p] = FALSE]
    /\ pc' = [pc EXCEPT ![p] = "idle"]
    /\ ret' = [ret EXCEPT ![p] = "None"]
    /\ cur' = [cur EXCEPT ![p] = NoName]
    /\ mode' = [mode EXCEPT ![p] = "name"]
    /\ orig' = [orig EXCEPT ![p] = <<>>]
    /\ UNCHANGED <<fs, cands>>
    /\ UNCHANGED <<xdg, conn, busy>>
    /\ Observed(p)

\* the owner of a WaylandSocket terminates without running Drop: the
\* operating system closes its descriptors (releasing the flock) and the
\* files stay behind
Terminate(p) ==
    /\ pc[p] = "live"
    /\ fd' = [fd EXCEPT ![p] = 0]
    /\ locked' = [locked EXCEPT ![p] = FALSE]
    /\ fs' = [path \in Paths |-> IF fs[path] = SocketFile(p) THEN SocketFile(0) ELSE fs[path]]
    /\ pc' = [pc EXCEPT ![p] = "idle"]
    /\ ret' = [ret EXCEPT ![p] = "None"]
    /\ cur' = [cur EXCEPT ![p] = NoName]
    /\ mode' = [mode EXCEPT ![p] = "name"]
    /\ orig' = [orig EXCEPT ![p] = <<>>]
    /\ UNCHANGED cands
    /\ conn' = [conn EXCEPT ![p] = "None"]
    /\ UNCHANGED <<xdg, busy>>
    /\ Observed(p)

Next ==
    \E p \in Callers :
        \/ \E n \in Names : with_name_in_dir(p, n)
        \/ \E cs \in CandSeqs : with_candidates_in_dir(p, cs)
        \/ OpenFail(p)
        \/ OpenOk(p)
        \/ FlockFail(p)
        \/ FlockOk(p)
        \/ UnlinkLeftover(p)
        \/ \E e \in BindErrors : BindFail(p, e)
        \/ BindOk(p)
        \/ DropUnlinkBind(p)
        \/ DropUnlinkLock(p)
        \/ DropFields(p)
        \/ Terminate(p)

\* callers whose system calls interleave freely
Spec == Init /\ [][Next]_vars

\* the system calls of a construction: a call that has begun runs to its
\* return, none of its steps is skipped for ever
CallStep(p) ==
    \/ OpenFail(p)
    \/ OpenOk(p)
    \/ FlockFail(p)
    \/ FlockOk(p)
    \/ UnlinkLeftover(p)
    \/ \E e \in BindErrors : BindFail(p, e)
    \/ BindOk(p)

NextHeld ==
    \E p \in Callers :
        \/ \E n \in Names : with_name_in_dir(p, n)
        \/ \E cs \in CandSeqs : with_candidates_in_dir(p, cs)
        \/ CallStep(p)

\* callers whose WaylandSockets are never dropped, so that a lock once taken
\* is held for ever; a call that has begun keeps running
SpecHeld == Init /\ [][NextHeld]_vars /\ \A p \in Callers : WF_vars(CallStep(p))

\* ---- the functions that read the environment -----------------------------
\* xdg_runtime_dir()? returned the error: the call is over before a path is
\* built
RuntimeDirInvalid(p) ==
    /\ pc[p] = "idle"
    /\ ret' = [ret EXCEPT ![p] = "RuntimeDirInvalid"]
    /\ UNCHANGED <<fs, pc, mode, orig, cands, cur, fd, locked, xdg, conn, busy>>
    /\ Observed(p)

\* WaylandSocket::with_name(name):
\* Self::with_name_in_dir(&xdg_runtime_dir()?, name)
with_name(p, n) ==
    /\ pc[p] = "idle"
    /\ IF xdg_runtime_dir(xdg).ok
       THEN xdg_runtime_dir(xdg).dir = Dir /\ with_name_in_dir(p, n)
       ELSE RuntimeDirInvalid(p)

\* WaylandSocket::with_candidates(candidates):
\* Self::with_candidates_in_dir(&xdg_runtime_dir()?, candidates)
with_candidates(p, cs) ==
    /\ pc[p] = "idle"
    /\ IF xdg_runtime_dir(xdg).ok
       THEN xdg_runtime_dir(xdg).dir = Dir /\ with_candidates_in_dir(p, cs)
       ELSE RuntimeDirInvalid(p)

\* the steps of a call once it is past its first line, and of a drop
Step(p) ==
    \/ OpenFail(p)
    \/ OpenOk(p)
    \/ FlockFail(p)
    \/ FlockOk(p)
    \/ UnlinkLeftover(p)
    \/ \E e \in BindErrors : BindFail(p, e)
    \/ BindOk(p)
    \/ DropUnlinkBind(p)
    \/ DropUnlinkLock(p)
    \/ DropFields(p)
    \/ Terminate(p)

NextEnv ==
    \E p \in Callers :
        \/ \E n \in Names : with_name(p, n)
        \/ \E cs \in CandSeqs : with_candidates(p, cs)
        \/ Step(p)

\* the callers use with_name and with_candidates, under any XDG_RUNTIME_DIR
SpecEnv == InitEnv /\ [][NextEnv]_vars

\* ---- accept ---------------------------------------------------------------
\* WaylandSocket::accept(&self): self.listener.accept() is awaited
accept(p) ==
    /\ pc[p] = "live"
    /\ conn[p] # "Pending"
    /\ conn' = [conn EXCEPT ![p] = "Pending"]
    /\ UNCHANGED <<fs, pc, mode, orig, cands, cur, fd, locked, ret, xdg, busy>>
    /\ Observed(p)

\* Mutant: an Accept error tears the socket down, as a drop would.
accept_returns_closing(p, r) ==
    /\ pc[p] = "live"
    /\ conn[p] = "Pending"
    /\ conn' = [conn EXCEPT ![p] = r]
    /\ fs' = IF r = "Accept"
             THEN [fs EXCEPT ![bind_path(p)] = NoFile, ![lock_path(p)] = NoFile]
             ELSE fs
    /\ UNCHANGED <<pc, mode, orig, cands, cur, fd, locked, ret, xdg, busy>>
    /\ Observed(p)

\* the awaited listener.accept() completes: Ok(stream), or its error mapped to
\* SocketError::Accept and returned by `?`
accept_returns(p, r) ==
    /\ pc[p] = "live"
    /\ conn[p] = "Pending"
    /\ conn' = [conn EXCEPT ![p] = r]
    /\ UNCHANGED <<fs, pc, mode, orig, cands, cur, fd, locked, ret, xdg, busy>>
    /\ Observed(p)

NextAccept ==
    \E p \in Callers :
        \/ \E n \in Names : with_name_in_dir(p, n)
        \/ Step(p)
        \/ accept(p)
        \/ \E r \in {"Stream", "Accept"} : accept_returns(p, r)

\* callers that construct WaylandSockets by name, accept on them and drop them
SpecAccept == Init /\ [][NextAccept]_vars

\* ---- auto() ---------------------------------------------------------------
\* the directory seen from auto(): a name is contended when its lock is held
\* outside the callers, or by the live WaylandSocket of another caller
AutoContended(p) ==
    cur[p] \in busy \/ \E q \in Callers \ {p} : Live(q) /\ name(q) = cur[p]

\* WaylandSocket::auto(): with_candidates over the default candidates
auto(p) ==
    /\ pc[p] = "idle"
    /\ IF xdg_runtime_dir(xdg).ok
       THEN xdg_runtime_dir(xdg).dir = Dir /\ with_candidates_in_dir(p, AutoCandidates)
       ELSE RuntimeDirInvalid(p)

\* Self::with_name_in_dir(dir, name) on the candidate of the loop, as the
\* loop sees it: its result r, which is LockAcquire when the name is contended
AttemptCandidate(p, r) ==
    /\ pc[p] = "open"
    /\ r = "LockAcquire" <=> AutoContended(p)
    /\ Outcome(p, r)
    /\ UNCHANGED <<fs, fd, locked>>
    /\ UNCHANGED <<xdg, conn, busy>>
    /\ Observed(p)

\* the names busy at the start: the first k default candidates
BusySets == {{AutoCandidates[j] : j \in 1..k} : k \in 0..Len(AutoCandidates)}

InitAuto == InitCallers /\ xdg \in EnvValues /\ busy \in BusySets

NextAuto ==
    \E p \in Callers :
        \/ auto(p)
        \/ \E r \in {"Ok", "LockOpen", "LockAcquire"} \cup BindErrors : AttemptCandidate(p, r)

\* callers of auto() in a directory where other processes hold locks
SpecAuto == InitAuto /\ [][NextAuto]_vars

(***************************************************************************)
(* Properties                                                              *)
(***************************************************************************)

\* a WaylandSocket of another caller is live under the name caller p is
\* attempting
Contended(p) == \E q \in Callers \ {p} : Live(q) /\ name(q) = cur[p]

\* the lock file of name n exists and a descriptor of a caller other than p
\* holds the flock on it
LockHeld(p, n) ==
    /\ fs[build_paths(Dir, n)[2]].kind = "reg"
    /\ HeldByOther(p, fs[build_paths(Dir, n)[2]].id)

\* C1 (as claimed): mutual exclusion per name.  In every reachable state no
\* two WaylandSockets of the same name are live.  Stated for sockets whose
\* drop has not even begun, which the claim's "constructed and not yet fully
\* dropped" includes.
MutualExclusion ==
    \A p, q \in Callers : (p # q /\ Live(p) /\ Live(q)) => name(p) # name(q)

\* C2 (as claimed): no construction attempt deletes the socket file of a live
\* WaylandSocket: the unlink of the leftover file in with_name_in_dir never
\* removes a socket file that a live WaylandSocket of another caller bound.
NoLiveSocketDeleted ==
    [][\A p \in Callers :
        UnlinkLeftover(p) =>
            ~\E q \in Callers \ {p} : Live(q) /\ fs[bind_path(p)] = SocketFile(q)]_vars

\* C3 (as claimed): while a WaylandSocket for name N is live, a second attempt
\* on N fails with LockAcquire: its flock never succeeds.
SecondAttemptFails ==
    [][\A p \in Callers : FlockOk(p) => ~Contended(p)]_vars

\* C4: a drop that runs undisturbed leaves neither the socket file nor the
\* lock file of its name behind, and the dropped caller keeps no descriptor
\* and no lock, so nothing of it stands in the way of a later selection of
\* the name.
DropRemovesBoth ==
    [][\A p \in Callers :
        /\ (DropUnlinkLock(p) /\ alone[p]) =>
              (fs'[bind_path(p)] = NoFile /\ fs'[lock_path(p)] = NoFile)
        /\ DropFields(p) =>
              /\ fd'[p] = 0 /\ ~locked'[p] /\ pc'[p] = "idle"
              /\ alone[p] => (fs'[bind_path(p)] = NoFile /\ fs'[lock_path(p)] = NoFile)]_vars

\* C4 witness: an undisturbed drop has made both unlinks.
DropRemovesBothWitness ==
    \E p \in Callers :
        /\ pc[p] = "drop_fields" /\ alone[p]
        /\ fs[bind_path(p)] = NoFile /\ fs[lock_path(p)] = NoFile

\* C5 (as claimed): a selection that runs undisturbed over candidates whose
\* current one is held by a live WaylandSocket never touches the socket path
\* of that candidate: it neither unlinks it nor binds it.
ContendedCandidateUntouched ==
    [][\A p \in Callers :
        (mode[p] = "cands" /\ alone[p] /\ Contended(p)) =>
            ~(UnlinkLeftover(p) \/ BindOk(p))]_vars

\* C6: stale-state recovery.  In an attempt that runs undisturbed, (a) the
\* flock is refused only because of a holder that is still running (a holder
\* that terminated holds nothing), and (b) when the bind is reached nothing
\* is at the bind path any more, so a leftover socket file never makes the
\* bind fail.
StaleRecovery ==
    \A p \in Callers :
        /\ (pc[p] = "flock" /\ alone[p]) =>
              \A q \in Callers \ {p} : (fd[q] = fd[p] /\ locked[q]) => pc[q] # "idle"
        /\ (pc[p] = "bind" /\ alone[p]) => fs[bind_path(p)] = NoFile

\* C6 witness: an undisturbed attempt holds the lock of a name whose socket
\* file was left by a terminated holder.
StaleRecoveryWitness ==
    \E p \in Callers :
        /\ pc[p] = "unlink" /\ alone[p] /\ locked[p]
        /\ fs[bind_path(p)] = SocketFile(0)

\* C7 (as claimed): an undisturbed selection over contended candidates (each
\* held by a live WaylandSocket) creates no file and is refused every lock.
ContendedLeavesNothing ==
    [][\A p \in Callers :
        (mode[p] = "cands" /\ alone[p] /\ Contended(p)) =>
            /\ OpenOk(p) => fs' = fs
            /\ ~FlockOk(p)]_vars

\* C8: candidates are tried in order and the first whose lock is free is
\* bound: when an undisturbed with_candidates_in_dir binds, the bound name is
\* the candidate at the position reached, and the lock of every candidate
\* before it is held by another caller.
FirstFreeCandidate ==
    [][\A p \in Callers :
        (BindOk(p) /\ alone[p] /\ mode[p] = "cands") =>
            LET k == Len(orig[p]) - Len(cands[p]) IN
                /\ k >= 1
                /\ orig[p][k] = cur[p]
                /\ cands[p] = SubSeq(orig[p], k + 1, Len(orig[p]))
                /\ \A j \in 1..(k - 1) : LockHeld(p, orig[p][j])]_vars

\* C8 witness: over the same list, one caller holds the first candidate and
\* the other skipped it and holds the second.
FirstFreeCandidateWitness ==
    \E p, q \in Callers :
        /\ Live(p) /\ Live(q)
        /\ orig[p] = <<CandidateName(1), CandidateName(2)>> /\ orig[q] = orig[p]
        /\ name(p) = CandidateName(1) /\ name(q) = CandidateName(2)
        /\ fs[bind_path(p)] = SocketFile(p) /\ fs[bind_path(q)] = SocketFile(q)

\* C9: only LockAcquire advances the selection.  An attempt that fails with
\* LockOpen or Bind ends the call with exactly that error, touching no file
\* and leaving the rest of the candidates unconsumed.
OnlyLockAcquireAdvances ==
    [][\A p \in Callers :
        /\ OpenFail(p) =>
              (pc'[p] = "idle" /\ ret'[p] = "LockOpen" /\ cands'[p] = cands[p] /\ fs' = fs)
        /\ \A e \in BindErrors :
              BindFail(p, e) =>
                  (pc'[p] = "idle" /\ ret'[p] = e /\ cands'[p] = cands[p] /\ fs' = fs)]_vars

\* C9 witness: a call returned LockOpen or Bind with candidates still untried.
OnlyLockAcquireAdvancesWitness ==
    \E p \in Callers :
        /\ pc[p] = "idle"
        /\ ret[p] \in {"LockOpen"} \cup BindErrors
        /\ cands[p] # <<>>

\* C10: rollback on failed construction.  A caller to which a call has
\* returned an error owns no WaylandSocket, no lock descriptor and no lock,
\* so whoever holds a lock is constructing, owning or dropping a socket.
RollbackOnBindError ==
    \A p \in Callers :
        /\ ret[p] \in SocketError => (pc[p] = "idle" /\ fd[p] = 0 /\ ~locked[p])
        /\ locked[p] => pc[p] \in {"unlink", "bind", "live", "drop_lock", "drop_fields"}

\* C10 witness: a Bind error has returned; the lock file the attempt locked
\* is still in the directory and nobody holds a lock on it.
RollbackOnBindErrorWitness ==
    \E p \in Callers :
        /\ pc[p] = "idle" /\ ret[p] \in BindErrors
        /\ \E path \in Paths :
              /\ fs[path].kind = "reg"
              /\ \A q \in Callers : fd[q] # fs[path].id

\* C11: when XDG_RUNTIME_DIR is unset, not Unicode or not an absolute path,
\* with_name and with_candidates fail with RuntimeDirInvalid before any
\* filesystem operation: the only thing a call ever returns is
\* RuntimeDirInvalid, no call gets as far as a candidate, no descriptor is
\* opened and no file appears in the directory.
RuntimeDirInvalidBeforeIO ==
    (xdg.state # "set" \/ ~is_absolute(xdg.chars)) =>
        /\ \A path \in Paths : fs[path] = NoFile
        /\ \A p \in Callers :
              /\ pc[p] = "idle" /\ cur[p] = NoName
              /\ fd[p] = 0 /\ ~locked[p]
              /\ ret[p] \in {"None", "RuntimeDirInvalid"}

\* calls have failed with RuntimeDirInvalid under a relative path
RuntimeDirInvalidBeforeIOWitness ==
    /\ xdg = EnvSet(<<"r", "u", "n">>)
    /\ \A p \in Callers : ret[p] = "RuntimeDirInvalid"

\* caller p is inside with_name_in_dir or with_candidates_in_dir
InCall(p) == pc[p] \in {"open", "flock", "unlink", "bind"}

\* the system calls an attempt still has before it, at most
StepsLeft(p) ==
    CASE pc[p] = "open" -> 4
      [] pc[p] = "flock" -> 3
      [] pc[p] = "unlink" -> 2
      [] pc[p] = "bind" -> 1
      [] OTHER -> 0

\* what is left to a call: the candidates not yet attempted, then the rest of
\* the attempt under way
Variant(p) == 4 * Len(cands[p]) + StepsLeft(p)

\* C12, the flock returns at once: wherever a caller is at its flock, locks
\* held by others or not, the call can return
FlockNeverWaits ==
    \A p \in Callers : pc[p] = "flock" => ENABLED <<FlockOk(p) \/ FlockFail(p)>>_vars

\* C12, each candidate at most once: the candidate under attempt is the one
\* at the loop's position in the sequence the call was given, what remains is
\* the sequence after it, and every step of the caller comes closer to the
\* return (the position never goes back)
EachCandidateOnce ==
    \A p \in Callers :
        /\ (InCall(p) /\ mode[p] = "cands") =>
              /\ Len(cands[p]) < Len(orig[p])
              /\ cur[p] = orig[p][Len(orig[p]) - Len(cands[p])]
              /\ cands[p] = SubSeq(orig[p], Len(orig[p]) - Len(cands[p]) + 1, Len(orig[p]))
        /\ (InCall(p) /\ <<pc[p], cur[p], cands[p]>>' # <<pc[p], cur[p], cands[p]>>) =>
              Variant(p)' < Variant(p)

\* C12: lock acquisition never waits and selection terminates.  Every call
\* of with_candidates_in_dir (and of with_name_in_dir) returns, having
\* attempted each candidate at most once, whatever locks other callers hold
\* and never release.
SelectionTerminates ==
    /\ []FlockNeverWaits
    /\ [][EachCandidateOnce]_vars
    /\ \A p \in Callers : InCall(p) ~> ~InCall(p)

\* the last candidate of a sequence of MaxCands is at its flock while the
\* other caller's live WaylandSocket holds the lock it asks for
SelectionTerminatesWitness ==
    \E p \in Callers :
        /\ pc[p] = "flock" /\ mode[p] = "cands"
        /\ Len(orig[p]) = MaxCands /\ cands[p] = <<>>
        /\ \E q \in Callers \ {p} : Live(q) /\ locked[q] /\ fd[q] = fd[p]

\* the candidates auto() has attempted so far in its running call
AutoAttempted(p) == SubSeq(orig[p], 1, Len(orig[p]) - Len(cands[p]))

\* C13, all but the count: in a call of auto() the candidates are attempted
\* in the order wayland-1, wayland-2, ..., never wayland-0; when every
\* candidate is contended the call returns NoAvailableSocket
AutoAscendingFromOne ==
    \A p \in Callers :
        /\ InCall(p) =>
              /\ cur[p] = AutoAttempted(p)[Len(AutoAttempted(p))]
              /\ \A k \in 1..Len(AutoAttempted(p)) :
                    AutoAttempted(p)[k] = "wayland-" \o ToString(k)
              /\ "wayland-0" \notin {orig[p][k] : k \in 1..Len(orig[p])}
        /\ (xdg_runtime_dir(xdg).ok /\ AutoNames \subseteq busy /\ ret[p] # "None") =>
              ret[p] = "NoAvailableSocket"

FirstTime(p) ==
    /\ InCall(p) /\ mode[p] = "name" /\ alone[p]
    /\ fs[bind_path(p)] = NoFile
    /\ IF pc[p] = "open"
       THEN fs[lock_path(p)] = NoFile
       ELSE fs[lock_path(p)] = RegularFile(fd[p]) /\ ~HeldByOther(p, fd[p])

\* the WaylandSocket of caller p as a first-time call for name n leaves it
FirstTimeEndpoint(p, n) ==
    /\ Live(p) /\ ret[p] = "Ok"
    /\ name(p) = n
    /\ bind_path(p) = "/run/" \o n
    /\ lock_path(p) = "/run/" \o n \o ".lock"
    /\ fs[bind_path(p)] = SocketFile(p)
    /\ fs[lock_path(p)] = RegularFile(fd[p])
    /\ locked[p]

LockOnCurrentFile ==
    \A p \in Callers :
        Live(p) => locked[p] /\ fs[lock_path(p)] = RegularFile(fd[p])

\* C16 (as claimed): under any interleaving, the two unlinks of a drop never
\* remove the socket file or the lock file of a different live WaylandSocket.
DropRemovesOnlyOwn ==
    [][\A p \in Callers :
        (DropUnlinkBind(p) \/ DropUnlinkLock(p)) =>
            \A q \in Callers \ {p} :
                Live(q) =>
                    /\ fs[bind_path(q)] = SocketFile(q) => fs'[bind_path(q)] = SocketFile(q)
                    /\ fs[lock_path(q)] = RegularFile(fd[q]) => fs'[lock_path(q)] = RegularFile(fd[q])
      ]_vars

\* C17, the lock is held throughout: from construction to the last step of
\* the drop the WaylandSocket holds its lock, and whatever is or is not at
\* its paths the next step of the drop can be taken
DropHoldsLock ==
    \A p \in Callers :
        /\ Exists(p) => locked[p] /\ fd[p] # 0
        /\ pc[p] = "drop_lock" => ENABLED DropUnlinkLock(p)
        /\ pc[p] = "drop_fields" => ENABLED DropFields(p)

\* C17, the order: the unlink of bind_path, then the unlink of lock_path, a
\* missing file stopping neither, both with the lock held before and after;
\* the lock of a WaylandSocket is given up only by the step that follows the
\* two unlinks (or by the end of its process)
DropOrder ==
    \A p \in Callers :
        /\ DropUnlinkBind(p) =>
              locked'[p] /\ fd'[p] = fd[p] /\ fs'[bind_path(p)] = NoFile /\ pc'[p] = "drop_lock"
        /\ DropUnlinkLock(p) =>
              locked'[p] /\ fd'[p] = fd[p] /\ fs'[lock_path(p)] = NoFile /\ pc'[p] = "drop_fields"
        /\ (Exists(p) /\ locked[p] /\ ~locked'[p]) => DropFields(p) \/ Terminate(p)

\* C17: teardown ordering.  Both unlinks of a drop happen while the
\* WaylandSocket holds its lock, the lock is released only after them, and a
\* file already missing prevents neither the other unlink nor the release.
TeardownOrdering == []DropHoldsLock /\ [][DropOrder]_vars

\* a drop is at its second unlink, the lock still held, and the lock file is
\* already missing
TeardownOrderingWitness ==
    \E p \in Callers :
        pc[p] = "drop_lock" /\ locked[p] /\ fs[lock_path(p)] = NoFile

\* C18: with_candidates_in_dir returns NoAvailableSocket only when every
\* candidate was attempted and each attempt failed with LockAcquire, the empty
\* sequence included.  A running call returns it only from the failed flock
\* of the last candidate, no candidate remaining; the loop moves to the next
\* candidate, which is the next of the sequence, only from a failed flock; a
\* call returns it at once only for the empty sequence; with_name_in_dir
\* never returns it.
NoAvailableSocketOnlyExhausted ==
    [][\A p \in Callers :
        /\ (InCall(p) /\ ~InCall(p)' /\ ret'[p] = "NoAvailableSocket") =>
              /\ FlockFail(p) /\ mode[p] = "cands"
              /\ cands[p] = <<>> /\ cur[p] = orig[p][Len(orig[p])]
        /\ (InCall(p) /\ InCall(p)' /\ cands'[p] # cands[p]) =>
              /\ FlockFail(p)
              /\ cur[p] = orig[p][Len(orig[p]) - Len(cands[p])]
              /\ cur'[p] = orig[p][Len(orig[p]) - Len(cands[p]) + 1]
              /\ Len(cands'[p]) = Len(cands[p]) - 1
        /\ \A cs \in CandSeqs :
              (with_candidates_in_dir(p, cs) /\ ret'[p] = "NoAvailableSocket") => cs = <<>>
        /\ \A n \in Names : with_name_in_dir(p, n) => ret'[p] # "NoAvailableSocket"
      ]_vars

\* a call has returned NoAvailableSocket while the other caller's live
\* WaylandSocket holds the lock of its name
NoAvailableSocketOnlyExhaustedWitness ==
    \E p \in Callers :
        /\ pc[p] = "idle" /\ ret[p] = "NoAvailableSocket"
        /\ \E q \in Callers \ {p} :
              Live(q) /\ locked[q] /\ fs[lock_path(q)] = RegularFile(fd[q])

\* C19, one result per call: a pending accept can return its connection and
\* can return its Accept error, each ending the call
AcceptReturnsOnce ==
    \A p \in Callers :
        conn[p] = "Pending" =>
            /\ ENABLED <<accept_returns(p, "Stream")>>_vars
            /\ ENABLED <<accept_returns(p, "Accept")>>_vars

\* C19, no identity state changes: over the call of accept and over its
\* return, a connection or an Accept error, the name, the paths, the lock
\* held and the files at the two paths are what they were, and the
\* WaylandSocket is still live
AcceptKeepsIdentity ==
    \A p \in Callers :
        (accept(p) \/ \E r \in {"Stream", "Accept"} : accept_returns(p, r)) =>
            /\ name(p)' = name(p)
            /\ bind_path(p)' = bind_path(p) /\ lock_path(p)' = lock_path(p)
            /\ fd'[p] = fd[p] /\ locked'[p] = locked[p]
            /\ fs'[bind_path(p)] = fs[bind_path(p)]
            /\ fs'[lock_path(p)] = fs[lock_path(p)]
            /\ Live(p)'
            /\ conn[p] = "Pending" => conn'[p] \in {"Stream", "Accept"}

\* C19: accept changes no identity state and returns exactly one connection
\* or one Accept error, without a retry.
AcceptChangesNothing == []AcceptReturnsOnce /\ [][AcceptKeepsIdentity]_vars

\* an accept has returned its Accept error and the WaylandSocket is live with
\* its lock and its two files
AcceptChangesNothingWitness ==
    \E p \in Callers :
        /\ Live(p) /\ conn[p] = "Accept" /\ locked[p]
        /\ fs[bind_path(p)] = SocketFile(p)
        /\ fs[lock_path(p)] = RegularFile(fd[p])

====
